---- MODULE Spec2Model ----
(***************************************************************************)
(* Examination timetable service (app.py).                                 *)
(*                                                                         *)
(* A /generate_timetable request loads a table of registrations, builds    *)
(* the subject conflict graph, colours it greedily (largest first) and     *)
(* renders every colour as a "Day-<d> Slot-<s>" label.  The four pieces of *)
(* data the pipeline works on (student_subjects_map, conflict_graph,       *)
(* generated_timetable and app.config['subject_to_students_map']) are      *)
(* module-level globals of the serving process.                            *)
(*                                                                         *)
(* Python dicts keep insertion order: a dict is modelled as a sequence of  *)
(* [k, v] records.  A Python set of str has no defined iteration order (it *)
(* depends on the interpreter's hash seed): enumerating one is a           *)
(* nondeterministic choice among all orders of its elements.               *)
(***************************************************************************)
EXTENDS Integers, Sequences, FiniteSets, TLC

\* ---------------------------------------------------------------- bounds
MaxRows == 3
NumStudents == 2
NumSubjects == 3
ConcMaxRows == 2

\* ------------------------------------------------------------ input data
NaN == ""

SubjectNames == <<"A", "B", "C", "D", "E", "F">>

Subjects == {SubjectNames[i] : i \in 1..NumSubjects}

Rollnos == {ToString(i) : i \in 1..NumStudents}

NameOf(rollno) == "N" \o rollno

Row(rollno, name, course) == [Rollno |-> rollno, Name |-> name, Course |-> course]

CompleteRows == {Row(r, NameOf(r), c) : r \in Rollnos, c \in Subjects}

IncompleteRows ==
    { Row(NaN, NameOf("1"), SubjectNames[NumSubjects]),
      Row("1", NaN, SubjectNames[NumSubjects]),
      Row("1", NameOf("1"), NaN) }

RowUniverse == CompleteRows \cup IncompleteRows

SeqsUpTo(S, n) == UNION {[1..m -> S] : m \in 0..n}

\* S1:[A,B], S2:[B,C], S3:[C,D]
ScenarioRows ==
    << Row("1", "N1", "A"), Row("1", "N1", "B"),
       Row("2", "N2", "B"), Row("2", "N2", "C"),
       Row("3", "N3", "C"), Row("3", "N3", "D") >>

Inputs == SeqsUpTo(RowUniverse, MaxRows) \cup {ScenarioRows}

ConcInputs == SeqsUpTo(CompleteRows, ConcMaxRows) \ {<<>>}

SlotsPerDayValues == {-1, 0, 1, 2}

\* ----------------------------------------------------------------- dicts
Keys(d) == {d[i].k : i \in 1..Len(d)}

Has(d, key) == key \in Keys(d)

IndexOf(d, key) == CHOOSE i \in 1..Len(d) : d[i].k = key

Get(d, key) == d[IndexOf(d, key)].v

Put(d, key, val) ==
    IF Has(d, key)
    THEN [d EXCEPT ![IndexOf(d, key)] = [k |-> key, v |-> val]]
    ELSE Append(d, [k |-> key, v |-> val])

Elems(s) == {s[i] : i \in 1..Len(s)}

\* All enumerations of a finite set, as sequences without repetition.
Orders(S) ==
    {f \in [1..Cardinality(S) -> S] : \A i, j \in 1..Cardinality(S) : f[i] = f[j] => i = j}

\* ----------------------------------------------------- load_data_from_s3
\* df.dropna(subset=['Rollno', 'Name', 'Course Name'])
dropna(rows) ==
    SelectSeq(rows, LAMBDA r : r.Rollno # NaN /\ r.Name # NaN /\ r.Course # NaN)

\* df['Rollno'].astype(str): a numeric column that held a missing value was
\* read as float64 and keeps that dtype after dropna, so 1 prints "1.0".
astype_str(cell, rows) ==
    IF \E i \in 1..Len(rows) : rows[i].Rollno = NaN THEN cell \o ".0" ELSE cell

RECURSIVE temp_student_subjects(_, _)
temp_student_subjects(df, rows) ==
    IF df = <<>> THEN <<>>
    ELSE LET n      == Len(df)
             acc    == temp_student_subjects(SubSeq(df, 1, n - 1), rows)
             rollno == astype_str(df[n].Rollno, rows)
             entry  == IF Has(acc, rollno) THEN Get(acc, rollno)
                       ELSE [name |-> df[n].Name, subjects |-> <<>>]
         IN  Put(acc, rollno, [entry EXCEPT !.subjects = Append(@, df[n].Course)])

load_student_subjects_map(rows) ==
    LET temp == temp_student_subjects(dropna(rows), rows)
    IN  [i \in 1..Len(temp) |-> [k |-> temp[i].k, v |-> temp[i].v.subjects]]

RECURSIVE subject_roster(_, _)
subject_roster(df, rows) ==
    IF df = <<>> THEN <<>>
    ELSE LET n       == Len(df)
             acc     == subject_roster(SubSeq(df, 1, n - 1), rows)
             student == [rollno |-> astype_str(df[n].Rollno, rows), name |-> df[n].Name]
             roster  == IF Has(acc, df[n].Course) THEN Get(acc, df[n].Course) ELSE <<>>
         IN  IF student \in Elems(roster)
             THEN Put(acc, df[n].Course, roster)
             ELSE Put(acc, df[n].Course, Append(roster, student))

load_subject_to_students_map(rows) == subject_roster(dropna(rows), rows)

\* -------------------------------------------------- build_conflict_graph
NoneGraph == [none |-> TRUE, nodes |-> <<>>, edges |-> {}]

\* nx.Graph()
EmptyGraph == [none |-> FALSE, nodes |-> <<>>, edges |-> {}]

\* Faulty variant: the "subject1 != subject2" test is left out.
StudentEdgesWithSelfLoops(subjects) ==
    { {subjects[p[1]], subjects[p[2]]} :
        p \in {q \in (1..Len(subjects)) \X (1..Len(subjects)) : q[1] < q[2]} }

\* add_edge(subjects[i], subjects[j]) for i < j, unless the two are equal
StudentEdges(subjects) ==
    { {subjects[p[1]], subjects[p[2]]} :
        p \in {q \in (1..Len(subjects)) \X (1..Len(subjects)) :
                 q[1] < q[2] /\ subjects[q[1]] # subjects[q[2]]} }

ConflictEdges(map) == UNION {StudentEdges(map[s].v) : s \in 1..Len(map)}

\* Faulty variant: the add_node loop is left out, only add_edge creates nodes.
SubjectsWithConflicts(map) == UNION ConflictEdges(map)

\* all_subjects.update(subjects) for every student
AllSubjects(map) == UNION {Elems(map[s].v) : s \in 1..Len(map)}

\* order: the order in which "for subject in all_subjects" yields the set
build_graph(map, order) ==
    [none |-> FALSE, nodes |-> order, edges |-> ConflictEdges(map)]

\* ---------------------------------------- nx.coloring.greedy_color(G, ..)
Degree(G, n) == Cardinality({e \in G.edges : n \in e})

\* sorted(G, key=G.degree, reverse=True): stable, equal degrees keep G's order
RECURSIVE strategy_largest_first(_, _)
strategy_largest_first(G, nodes) ==
    IF nodes = <<>> THEN <<>>
    ELSE LET n == Len(nodes)
             s == strategy_largest_first(G, SubSeq(nodes, 1, n - 1))
             x == nodes[n]
             p == Cardinality({i \in 1..Len(s) : Degree(G, s[i]) >= Degree(G, x)})
         IN  SubSeq(s, 1, p) \o <<x>> \o SubSeq(s, p + 1, Len(s))

\* Faulty variant: the first colour is taken without looking at the neighbours.
first_free_unchecked(color, neighbour_colors) == color

\* for color in itertools.count(): if color not in neighbour_colors: break
RECURSIVE first_free(_, _)
first_free(color, neighbour_colors) ==
    IF color \notin neighbour_colors THEN color
    ELSE first_free(color + 1, neighbour_colors)

RECURSIVE color_nodes(_, _)
color_nodes(G, nodes) ==
    IF nodes = <<>> THEN <<>>
    ELSE LET n      == Len(nodes)
             colors == color_nodes(G, SubSeq(nodes, 1, n - 1))
             u      == nodes[n]
             neighbour_colors ==
                 {Get(colors, v) : v \in {w \in Keys(colors) : {u, w} \in G.edges}}
         IN  Put(colors, u, first_free(0, neighbour_colors))

\* Faulty variant: every node gets a colour of its own, in processing order.
greedy_color_sequential(G) ==
    LET nodes == strategy_largest_first(G, G.nodes)
    IN  [i \in 1..Len(nodes) |-> [k |-> nodes[i], v |-> i - 1]]

greedy_color(G) == color_nodes(G, strategy_largest_first(G, G.nodes))

\* ---------------------------------------------- generate_timetable_slots
\* Python's // and % on ints: the quotient is rounded towards minus infinity
\* (slot_index >= 0, slots # 0)
FloorDiv(slot_index, slots) ==
    IF slots > 0 THEN slot_index \div slots
    ELSE -((slot_index + (-slots) - 1) \div (-slots))

Mod(slot_index, slots) == slot_index - slots * FloorDiv(slot_index, slots)

\* Faulty variant: the label is built from the slot within the day alone.
slot_name_without_day(slot_index, slots) ==
    "Day-1 Slot-" \o ToString(Mod(slot_index, slots) + 1)

slot_name(slot_index, slots) ==
    "Day-" \o ToString(FloorDiv(slot_index, slots) + 1)
        \o " Slot-" \o ToString(Mod(slot_index, slots) + 1)

students_for_subject(roster_map, subject) ==
    IF Has(roster_map, subject) THEN Get(roster_map, subject) ELSE <<>>

RECURSIVE construct_timetable(_, _, _)
construct_timetable(colors, roster_map, slots) ==
    IF colors = <<>> THEN <<>>
    ELSE LET n   == Len(colors)
             acc == construct_timetable(SubSeq(colors, 1, n - 1), roster_map, slots)
         IN  Put(acc, colors[n].k,
                 [slot     |-> slot_name(colors[n].v, slots),
                  students |-> students_for_subject(roster_map, colors[n].k)])

\* ------------------------------------------------------------ get_timetable
formatted_timetable_output(timetable) ==
    [i \in 1..Len(timetable) |->
        [subject  |-> timetable[i].k,
         slot     |-> timetable[i].v.slot,
         students |-> timetable[i].v.students]]

NoResponse == [status |-> "none", message |-> "", timetable |-> <<>>]

ErrorResponse(msg) == [status |-> "error", message |-> msg, timetable |-> <<>>]

SuccessResponse(timetable) ==
    [status    |-> "success",
     message   |-> "Timetable generated successfully.",
     timetable |-> formatted_timetable_output(timetable)]

\* ------------------------------------------------------------------ state
VARIABLES
    SLOTS_PER_DAY,             \* the configured slots per day
    student_subjects_map,      \* global: dict rollno -> list of course names
    subject_to_students_map,   \* app.config[..]: dict course -> roster
    conflict_graph,            \* global: None or an nx.Graph
    generated_timetable,       \* global: dict course -> [slot, students]
    rows,                      \* per request: the table stored under its file_key
    pc,                        \* per request: the call get_timetable makes next
    coloring,                  \* per request: local of generate_timetable_slots
    response,                  \* per request: what get_timetable returned
    first_response             \* per request: the response of its first run

vars == <<SLOTS_PER_DAY, student_subjects_map, subject_to_students_map, conflict_graph,
          generated_timetable, rows, pc, coloring, response, first_response>>

globals == <<student_subjects_map, subject_to_students_map, conflict_graph,
             generated_timetable>>

Requests == DOMAIN pc

InitProcess ==
    /\ student_subjects_map = <<>>
    /\ subject_to_students_map = <<>>
    /\ conflict_graph = NoneGraph
    /\ generated_timetable = <<>>

InitRequests(R) ==
    /\ pc = [t \in R |-> "load"]
    /\ coloring = [t \in R |-> <<>>]
    /\ response = [t \in R |-> NoResponse]
    /\ first_response = [t \in R |-> NoResponse]

\* One request served by a freshly started process.
Init ==
    /\ SLOTS_PER_DAY \in SlotsPerDayValues
    /\ rows \in [{1} -> Inputs]
    /\ InitProcess
    /\ InitRequests({1})

\* Two requests for two files, served by the threads of one process.
InitConc ==
    /\ SLOTS_PER_DAY = 2
    /\ rows \in [{1, 2} -> ConcInputs]
    /\ InitProcess
    /\ InitRequests({1, 2})

Return(t, resp) ==
    /\ pc' = [pc EXCEPT ![t] = "done"]
    /\ response' = [response EXCEPT ![t] = resp]

\* load_data_from_s3 returns True.
Load(t) ==
    /\ pc[t] = "load"
    /\ student_subjects_map' = load_student_subjects_map(rows[t])
    /\ subject_to_students_map' = load_subject_to_students_map(rows[t])
    /\ pc' = [pc EXCEPT ![t] = "build"]
    /\ UNCHANGED <<SLOTS_PER_DAY, conflict_graph, generated_timetable, rows, coloring,
                   response, first_response>>

\* load_data_from_s3 returns False: the object store or the parser failed.
LoadFail(t) ==
    /\ pc[t] = "load"
    /\ student_subjects_map' = <<>>
    /\ Return(t, ErrorResponse("Failed to load data from S3."))
    /\ UNCHANGED <<SLOTS_PER_DAY, subject_to_students_map, conflict_graph,
                   generated_timetable, rows, coloring, first_response>>

BuildConflictGraph(t) ==
    /\ pc[t] = "build"
    /\ IF student_subjects_map = <<>>
       THEN /\ conflict_graph' = EmptyGraph
            /\ Return(t, ErrorResponse("Failed to build conflict graph."))
       ELSE /\ \E order \in Orders(AllSubjects(student_subjects_map)) :
                  conflict_graph' = build_graph(student_subjects_map, order)
            /\ pc' = [pc EXCEPT ![t] = "generate"]
            /\ UNCHANGED response
    /\ UNCHANGED <<SLOTS_PER_DAY, student_subjects_map, subject_to_students_map,
                   generated_timetable, rows, coloring, first_response>>

GenerateTimetableSlots(t) ==
    /\ pc[t] = "generate"
    /\ IF conflict_graph.none \/ conflict_graph.nodes = <<>>
       THEN /\ generated_timetable' = <<>>
            /\ Return(t, ErrorResponse("Failed to generate timetable."))
            /\ UNCHANGED coloring
       ELSE /\ coloring' = [coloring EXCEPT ![t] = greedy_color(conflict_graph)]
            /\ IF SLOTS_PER_DAY = 0
               THEN \* ZeroDivisionError on the first entry, caught
                    /\ generated_timetable' = <<>>
                    /\ Return(t, ErrorResponse("Failed to generate timetable."))
               ELSE /\ generated_timetable' =
                           construct_timetable(coloring'[t], subject_to_students_map,
                                               SLOTS_PER_DAY)
                    /\ pc' = [pc EXCEPT ![t] = "format"]
                    /\ UNCHANGED response
    /\ UNCHANGED <<SLOTS_PER_DAY, student_subjects_map, subject_to_students_map,
                   conflict_graph, rows, first_response>>

FormatResponse(t) ==
    /\ pc[t] = "format"
    /\ Return(t, SuccessResponse(generated_timetable))
    /\ UNCHANGED <<SLOTS_PER_DAY, globals, rows, coloring, first_response>>

\* The serving process is started again (a new hash seed, fresh globals) and
\* the same requests are made once more.
Restart ==
    /\ \A t \in Requests : pc[t] = "done"
    /\ first_response' =
           [t \in Requests |->
               IF first_response[t] = NoResponse THEN response[t] ELSE first_response[t]]
    /\ student_subjects_map' = <<>>
    /\ subject_to_students_map' = <<>>
    /\ conflict_graph' = NoneGraph
    /\ generated_timetable' = <<>>
    /\ pc' = [t \in Requests |-> "load"]
    /\ coloring' = [t \in Requests |-> <<>>]
    /\ response' = [t \in Requests |-> NoResponse]
    /\ UNCHANGED <<SLOTS_PER_DAY, rows>>

Next ==
    \/ \E t \in Requests : Load(t)
    \/ \E t \in Requests : LoadFail(t)
    \/ \E t \in Requests : BuildConflictGraph(t)
    \/ \E t \in Requests : GenerateTimetableSlots(t)
    \/ \E t \in Requests : FormatResponse(t)

NextRerun == Next \/ Restart

Spec == Init /\ [][Next]_vars

SpecRerun == Init /\ [][NextRerun]_vars

SpecConc == InitConc /\ [][Next]_vars

\* ----------------------------------------------------------- properties
\* The registrations of a table, read off the rows themselves.
Complete(r) == r.Rollno # NaN /\ r.Name # NaN /\ r.Course # NaN

StudentsIn(table) == {table[i].Rollno : i \in {j \in 1..Len(table) : Complete(table[j])}}

SubjectsIn(table) == {table[i].Course : i \in {j \in 1..Len(table) : Complete(table[j])}}

SubjectsOf(table, student) ==
    {table[i].Course :
        i \in {j \in 1..Len(table) : Complete(table[j]) /\ table[j].Rollno = student}}

Succeeded(t) == pc[t] = "done" /\ response[t].status = "success"

Colored(t) == pc[t] \in {"format", "done"} /\ coloring[t] # <<>>

GraphBuilt(t) == pc[t] \in {"generate", "format"} \/ Succeeded(t)

SlotsOf(resp, subject) ==
    {resp.timetable[i].slot :
        i \in {j \in 1..Len(resp.timetable) : resp.timetable[j].subject = subject}}

MaxDegree(G) ==
    IF G.nodes = <<>> THEN 0
    ELSE CHOOSE d \in {Degree(G, n) : n \in Elems(G.nodes)} :
             \A n \in Elems(G.nodes) : Degree(G, n) <= d

ColorsUsed(colors) == {colors[i].v : i \in 1..Len(colors)}

\* C1: with slots per day >= 1, in the timetable of a successful request no
\* student has two of their distinct subjects under the same day/slot label.
C1_NoStudentDoubleBooked ==
    \A t \in Requests :
        (Succeeded(t) /\ SLOTS_PER_DAY >= 1) =>
            \A student \in StudentsIn(rows[t]) :
                \A s1, s2 \in SubjectsOf(rows[t], student) :
                    s1 # s2 =>
                        /\ SlotsOf(response[t], s1) # {}
                        /\ SlotsOf(response[t], s2) # {}
                        /\ SlotsOf(response[t], s1) \cap SlotsOf(response[t], s2) = {}

\* A student sitting three subjects got a timetable that spans two days.
C1_Witness ==
    \E t \in Requests :
        /\ Succeeded(t)
        /\ SLOTS_PER_DAY = 2
        /\ \E student \in StudentsIn(rows[t]) :
               Cardinality(SubjectsOf(rows[t], student)) = 3
        /\ \E i \in 1..Len(response[t].timetable) :
               response[t].timetable[i].slot = "Day-2 Slot-1"

\* C2: the greedy largest-first colouring is proper (the two ends of every
\* conflict edge have different colours), the nodes are coloured in order of
\* non-increasing degree, and every node gets the smallest non-negative
\* integer that none of its already coloured neighbours has.
C2_ProperGreedyColoring ==
    \A t \in Requests :
        Colored(t) =>
            LET colors == coloring[t]
                G      == conflict_graph
                Before(i) == {colors[j].v :
                                j \in {m \in 1..(i - 1) : {colors[m].k, colors[i].k} \in G.edges}}
            IN  /\ \A i, j \in 1..Len(colors) :
                       {colors[i].k, colors[j].k} \in G.edges => colors[i].v # colors[j].v
                /\ \A i, j \in 1..Len(colors) :
                       i < j => Degree(G, colors[i].k) >= Degree(G, colors[j].k)
                /\ \A i \in 1..Len(colors) :
                       /\ colors[i].v >= 0
                       /\ colors[i].v \notin Before(i)
                       /\ \A c \in 0..(colors[i].v - 1) : c \in Before(i)

\* A graph with conflicts was coloured and a node had to skip a colour.
C2_Witness ==
    \E t \in Requests :
        /\ Colored(t)
        /\ conflict_graph.edges # {}
        /\ \E i \in 1..Len(coloring[t]) : coloring[t][i].v >= 2

\* C3: every subject of a complete registration is a node of the conflict
\* graph (once), gets a colour (once) and has exactly one timetable entry,
\* isolated subjects included; the timetable names no other subject.
C3_EverySubjectScheduledOnce ==
    \A t \in Requests :
        LET subs == SubjectsIn(rows[t])
        IN  /\ GraphBuilt(t) =>
                   /\ Elems(conflict_graph.nodes) = subs
                   /\ Len(conflict_graph.nodes) = Cardinality(subs)
            /\ (pc[t] = "format" \/ Succeeded(t)) =>
                   /\ Keys(coloring[t]) = subs
                   /\ Len(coloring[t]) = Cardinality(subs)
            /\ Succeeded(t) =>
                   /\ \A s \in subs :
                          Cardinality({i \in 1..Len(response[t].timetable) :
                                          response[t].timetable[i].subject = s}) = 1
                   /\ \A i \in 1..Len(response[t].timetable) :
                          response[t].timetable[i].subject \in subs

\* A timetable holds a subject without any conflict next to conflicting ones.
C3_Witness ==
    \E t \in Requests :
        /\ Succeeded(t)
        /\ conflict_graph.edges # {}
        /\ \E s \in SubjectsIn(rows[t]) :
               /\ Degree(conflict_graph, s) = 0
               /\ SlotsOf(response[t], s) # {}

\* C4: two independent runs of the pipeline on the same table with the same
\* slots per day answer with the same timetable, entry for entry.
C4_RunsAgree ==
    \A t \in Requests :
        (Succeeded(t) /\ first_response[t].status = "success" /\ SLOTS_PER_DAY >= 1) =>
            response[t] = first_response[t]

\* C5: S1:[A,B], S2:[B,C], S3:[C,D] with two slots per day gives the edges
\* A-B, B-C, C-D, the colours B=0, C=1, A=1, D=0 and the labels
\* B, D -> Day-1 Slot-1 and C, A -> Day-1 Slot-2.
C5_Scenario ==
    \A t \in Requests :
        (Succeeded(t) /\ rows[t] = ScenarioRows /\ SLOTS_PER_DAY = 2) =>
            /\ conflict_graph.edges = {{"A", "B"}, {"B", "C"}, {"C", "D"}}
            /\ Keys(coloring[t]) = {"A", "B", "C", "D"}
            /\ Get(coloring[t], "B") = 0
            /\ Get(coloring[t], "C") = 1
            /\ Get(coloring[t], "A") = 1
            /\ Get(coloring[t], "D") = 0
            /\ SlotsOf(response[t], "B") = {"Day-1 Slot-1"}
            /\ SlotsOf(response[t], "D") = {"Day-1 Slot-1"}
            /\ SlotsOf(response[t], "C") = {"Day-1 Slot-2"}
            /\ SlotsOf(response[t], "A") = {"Day-1 Slot-2"}

\* C6: with slots per day 0 or negative, generation ends in an error: no
\* timetable entry is produced and no request is answered with success.
C6_InvalidConfigRejected ==
    SLOTS_PER_DAY < 1 =>
        /\ generated_timetable = <<>>
        /\ \A t \in Requests : pc[t] # "format" /\ response[t].status # "success"

\* C7: a table without any complete registration is refused by the loading
\* stage: loading does not report success, so no later stage runs on the
\* empty map, and the request is not answered with success.
C7_EmptyInputRejectedByLoad ==
    \A t \in Requests :
        SubjectsIn(rows[t]) = {} =>
            /\ pc[t] \in {"load", "done"}
            /\ pc[t] = "done" => response[t] = ErrorResponse("Failed to load data from S3.")

\* What a request can be answered with when it is served alone.
OwnTimetables(table, slots) ==
    {formatted_timetable_output(
         construct_timetable(
             greedy_color(build_graph(load_student_subjects_map(table), order)),
             load_subject_to_students_map(table), slots)) :
        order \in Orders(AllSubjects(load_student_subjects_map(table)))}

\* C8: whatever the interleaving of two requests, a successful response
\* holds the subjects, slots and rosters of the request's own registrations.
C8_ResponseFromOwnRegistrations ==
    \A t \in Requests :
        Succeeded(t) => response[t].timetable \in OwnTimetables(rows[t], SLOTS_PER_DAY)

\* C9: the conflict graph has the edge {s1, s2} exactly when s1 # s2 and some
\* student is registered for both; no edge is a self-loop.
C9_EdgeIffSharedStudent ==
    \A t \in Requests :
        GraphBuilt(t) =>
            \* only if: an edge joins two distinct subjects of one student
            /\ \A e \in conflict_graph.edges :
                   /\ Cardinality(e) = 2
                   /\ \E student \in StudentsIn(rows[t]) :
                          e \subseteq SubjectsOf(rows[t], student)
            \* if: two distinct subjects of one student are joined
            /\ \A student \in StudentsIn(rows[t]) :
                   \A s1, s2 \in SubjectsOf(rows[t], student) :
                       s1 # s2 => {s1, s2} \in conflict_graph.edges

\* A student listed twice for one subject also sits another one.
C9_Witness ==
    \E t \in Requests :
        /\ GraphBuilt(t)
        /\ conflict_graph.edges # {}
        /\ \E i, j \in 1..Len(rows[t]) :
               i # j /\ Complete(rows[t][i]) /\ rows[t][i] = rows[t][j]

\* C10: the largest colour index is at most the maximum degree (so at most
\* maximum degree + 1 colours are used); without edges only colour 0 is used.
C10_ColorsWithinDegreeBound ==
    \A t \in Requests :
        Colored(t) =>
            /\ \A c \in ColorsUsed(coloring[t]) : c <= MaxDegree(conflict_graph)
            /\ Cardinality(ColorsUsed(coloring[t])) <= MaxDegree(conflict_graph) + 1
            /\ conflict_graph.edges = {} => ColorsUsed(coloring[t]) = {0}

\* The bound is met: a triangle needs all of its three colours.
C10_Witness ==
    \E t \in Requests :
        /\ Colored(t)
        /\ MaxDegree(conflict_graph) = 2
        /\ ColorsUsed(coloring[t]) = {0, 1, 2}

====
